---- MODULE Spec2Model ----
(***************************************************************************)
(* Model of the resolution engine of ipi (src/ipi/pipelines.py): the       *)
(* round-based, two-lane (build tool / package) loop of PackagesInstaller, *)
(* ResolutionRound and ResolutionSubRound, with the helpers it relies on   *)
(* (clonePackagesRepos, ResolutionPrefs.clone, unpinRequirement).          *)
(*                                                                         *)
(* The dict-valued collections toFetch, fetched, resolved, ignored and     *)
(* installDirs are modelled by their key sets: every value the code stores *)
(* in them (a Path, a lookup result, or 1) is truthy, and the code only    *)
(* tests membership and truthiness of the values.                          *)
(***************************************************************************)
EXTENDS Integers, Sequences, FiniteSets, TLC

\* ---------------------------------------------------------------- bounds
NumNames == 4       \* size of the universe of package names
MaxWeight == 4      \* size of an input configuration (see Configuration)
MaxRounds == 5      \* Round calls after which a run is no longer followed
MaxDeepWeight == 5  \* size of a plain input configuration (see DeepInit)

NameList == <<"A", "B", "C", "D", "E", "F">>
Names == {NameList[i] : i \in 1..NumNames}

\* ------------------------------------------------- ResolutionRoundSubRound
Lanes == {"build", "pkgs"}

\* iteration order of ResolutionRound.subRounds (a dict: insertion order)
SubRoundOrder == <<"build", "pkgs">>

\* order of the two fetch calls in ResolutionRound.__call__
FetchOrder == <<"build", "pkgs">>

InstallOrderSwapped == <<"pkgs", "build">>

\* order of the two calls in ResolutionRound.buildAndInstallWheel
InstallOrder == <<"build", "pkgs">>

\* thisOtherSubRounds: the only other sub round of a Round
OtherLane(l) == IF l = "build" THEN "pkgs" ELSE "build"

\* ResolutionSubRound.__init__ as called by ResolutionRound.__init__
MoveToThis(l) == l = "build"

PrefsPatchNoForce(l) == [forceReinstall |-> FALSE]

\* prefsPatch of each sub round: a partial map of ResolutionPrefs fields
PrefsPatch(l) == IF l = "build" THEN [forceReinstall |-> FALSE] ELSE <<>>

EmptySubRound == [toFetch |-> {}, fetched |-> {}, resolved |-> {}, ignored |-> {}]

EmptyRound == [build |-> EmptySubRound, pkgs |-> EmptySubRound]

\* ------------------------------------------------------------ versions
\* Versions are 1..LatestVersion, 0 stands for "not installed" (None).
\* A specifier is a lower bound: 0 is the empty SpecifierSet.
LatestVersion == 2

\* list(el.specifier.filter((version,), prereleases=True)) is non-empty
Satisfies(version, spec) == version >= spec

VARIABLES
  graph,          \* what extractMetadata returns: requirement edges
  registry,       \* kind of the fetch spec registry.lookup gives for a name
  installed,      \* getInstalledPackageVersion: name -> version, 0 if none
  prefs,          \* the ResolutionPrefs the caller passes
  names,          \* the names the caller passes
  unpinAvailable, \* whether the unpin library could be imported
  rr,             \* the current ResolutionRound
  nextRound,      \* the successor Round under construction
  installDirs,    \* PackagesInstaller.installDirs (its keys)
  sourcesDir,     \* PackagesInstaller.sourcesDir: none, open or cleaned
  pc,             \* position of the installer
  lane,           \* index of the sub round the current phase works on
  pending,        \* names the running buildAndInstallWheel loop has left
  lanesDone,      \* sub rounds whose buildAndInstallWheel has returned
  successorSubRound, \* the loop variable of that name in _resolveDeps
  round,          \* number of Round calls made
  fetchCount,     \* history: fetcher invocations per name
  installLog,     \* history: <<lane, name>> of every build-and-install
  disc,           \* history: names discovered in this round, per dep kind
  bothKinds,      \* history: names discovered as both kinds in one round
  everResolved,   \* history: names that were dependency-resolved
  fetchedAfterFatal, \* history: names a clone fetched after it had met a
                  \* spec that makes fetch raise
  everIgnored,    \* history: names that were put into ignored, per lane
  dp,             \* the DistributionPath: key -> distribution, 0 if none
  distName,       \* the argument of getInstalledPackageDistribution
  distResult      \* what that call gave

inputs == <<graph, registry, prefs, names, unpinAvailable>>
hist == <<fetchCount, installLog, disc, bothKinds, everResolved, fetchedAfterFatal,
          everIgnored>>
distVars == <<dp, distName, distResult>>
vars == <<graph, registry, installed, prefs, names, unpinAvailable, rr,
          nextRound, installDirs, sourcesDir, pc, lane, pending, lanesDone,
          successorSubRound, round, fetchCount, installLog, disc, bothKinds,
          everResolved, fetchedAfterFatal, everIgnored, dp, distName, distResult>>

\* ------------------------------------------------------ input configurations
Requirements == [name : Names, marker : BOOLEAN, spec : 1..LatestVersion]

\* an edge: package `from` lists requirement `req` among its deps/buildDeps
EdgeUniverse == {e \in [from : Names, kind : Lanes, req : Requirements] :
                   e.from # e.req.name}

EdgeWeight(e) == 1 + (IF e.req.marker THEN 1 ELSE 0)
                   + (IF e.req.spec > 1 THEN 1 ELSE 0)

\* the first k names
Prefix(k) == {NameList[i] : i \in 1..k}

\* the edges of weight d
EdgesOfWeight == [d \in 1..3 |-> {x \in EdgeUniverse : EdgeWeight(x) = d}]

\* the names a run that starts from the names S can ever come across: every
\* edge of the graphs built below leaves such a name
Reach(S, g) == S \cup {e.from : e \in g} \cup {e.req.name : e \in g}

\* the graphs of G with one more edge of weight d: it leaves a name a run from
\* the first r names comes across, for such a name or the first unused name
Extend(r, G, d) ==
  UNION {{g \cup {e} : e \in {x \in EdgesOfWeight[d] :
                                 /\ x \notin g
                                 /\ x.from \in U
                                 /\ x.req.name \in U \cup (Prefix(Cardinality(U) + 1) \cap Names)}} :
         <<g, U>> \in {<<h, Reach(Prefix(r), h)>> : h \in G}}

\* <<G0, ..., Gw>>: Gi holds the graphs of weight i a run from the first r
\* names can read, the names numbered as the edges bring them in
RECURSIVE GraphLevels(_, _)
GraphLevels(r, w) ==
  IF w = 0 THEN <<{{}}>>
  ELSE CHOOSE L \in {Append(prev, UNION {Extend(r, prev[w - d + 1], d) :
                                         d \in 1..(IF w < 3 THEN w ELSE 3)}) :
                     prev \in {GraphLevels(r, w - 1)}} : TRUE

\* the graphs of weight at most w a run from the first r names can read
Graphs(r, w) == UNION {UNION {L[i] : i \in DOMAIN L} : L \in {GraphLevels(r, w)}}

RECURSIVE GraphWeight(_)
GraphWeight(g) ==
  IF g = {} THEN 0
  ELSE LET x == CHOOSE y \in g : TRUE IN EdgeWeight(x) + GraphWeight(g \ {x})

B2N(b) == IF b THEN 1 ELSE 0

PrefsWeight(p) == B2N(p.upgrade) + B2N(~p.resolveDeps) + B2N(p.forceReinstall)

\* ResolutionPrefs.__init__ defaults
DefaultPrefs == [upgrade |-> FALSE, resolveDeps |-> TRUE, forceReinstall |-> FALSE]

AllPrefs == [upgrade : BOOLEAN, resolveDeps : BOOLEAN, forceReinstall : BOOLEAN]

\* ------------------------------------------------------------ metadata
\* md.deps / md.buildDeps of the package fetched under `name`
MdDeps(name) == {e.req : e \in {x \in graph : x.from = name /\ x.kind = "pkgs"}}
MdBuildDeps(name) == {e.req : e \in {x \in graph : x.from = name /\ x.kind = "build"}}

\* depsGetter of each sub round
DepsGetter(l, p, name) ==
  IF l = "build" THEN MdBuildDeps(name)
  ELSE IF p.resolveDeps /\ MdDeps(name) # {} THEN MdDeps(name) ELSE {}

\* unpinRequirement: without the unpin library the specifier is emptied;
\* with it only malicious pins are filtered, lower bounds are kept
UnpinRequirement(req) ==
  IF unpinAvailable THEN req ELSE [req EXCEPT !.spec = 0]

\* ------------------------------------------------------- ResolutionPrefs
Clone(p, patch) ==
  [k \in DOMAIN p |-> IF k \in DOMAIN patch THEN patch[k] ELSE p[k]]

\* a loop that hands the caller's prefs to the Round calls as they are
RoundPrefsAsGiven(p) == p

\* what the loop of downloadPackagesAndTheirDependencies passes to every
\* Round call when its caller gave p
RoundPrefsOf(p) == Clone(p, [upgrade |-> FALSE])

\* the prefs every Round call receives: prefs.clone(upgrade=False)
RoundPrefs == RoundPrefsOf(prefs)

\* ---------------------------------------------------- clonePackagesRepos
\* kinds of fetch spec: "git" has a fetcher, "system" is Source.system,
\* "other" is a kind without a fetcher that is not Source.system
Kinds == {"git", "system", "other"}

ClonePackagesReposSystemToo(packagesToClone) ==
  [res |-> {n \in packagesToClone : registry[n] # "other"},
   ignored |-> {n \in packagesToClone : registry[n] = "other"}]

\* the names for which the fetcher is invoked (res) and the rest (ignored)
ClonePackagesRepos(packagesToClone) ==
  [res |-> {n \in packagesToClone : registry[n] = "git"},
   ignored |-> {n \in packagesToClone : registry[n] # "git"}]

\* ------------------------------------------------------ ResolutionSubRound
\* ResolutionSubRoundPipelineStage, the values appendNewDeps can see
notResolved == 0
fetchedStage == 1
depsResolved == 2

SubRoundBool(sr) == sr.toFetch # {}

\* bool() of the dict of sub rounds instead of the sub rounds
RoundBoolSubRounds(r) == DOMAIN r # {}

RoundBool(r) == SubRoundBool(r.build) \/ SubRoundBool(r.pkgs)

IsReInstallationNeededNoSpecifier(el, p) ==
  IF el.marker THEN FALSE
  ELSE LET version == installed[el.name] IN
    IF version # 0 THEN (IF ~p.upgrade THEN TRUE ELSE TRUE) ELSE TRUE

IsReInstallationNeededNoMarker(el, p) ==
  LET version == installed[el.name] IN
    IF version # 0
    THEN IF ~p.upgrade
         THEN IF p.forceReinstall THEN TRUE
              ELSE IF Satisfies(version, el.spec) THEN FALSE ELSE TRUE
         ELSE TRUE
    ELSE TRUE

\* isReInstallationNeeded without the forceReinstall branch
IsReInstallationNeededNoForce(el, p) ==
  IF el.marker THEN FALSE
  ELSE LET version == installed[el.name] IN
    IF version # 0
    THEN IF ~p.upgrade
         THEN IF Satisfies(version, el.spec) THEN FALSE ELSE TRUE
         ELSE TRUE
    ELSE TRUE

IsReInstallationNeeded(el, p) ==
  IF el.marker THEN FALSE
  ELSE LET version == installed[el.name] IN
    IF version # 0
    THEN IF ~p.upgrade
         THEN IF p.forceReinstall THEN TRUE
              ELSE IF Satisfies(version, el.spec) THEN FALSE ELSE TRUE
         ELSE TRUE
    ELSE TRUE

\* _STAGE_TO_COLLECTION is walked in insertion order: fetched, then resolved
IsAlreadyBeingProcessed(sr, el) ==
  IF el \in sr.fetched THEN fetchedStage
  ELSE IF el \in sr.resolved THEN depsResolved
  ELSE notResolved

StageToCollection(sr, stage) ==
  IF stage = fetchedStage THEN sr.fetched ELSE sr.resolved

SetStageCollection(sr, stage, coll) ==
  IF stage = fetchedStage THEN [sr EXCEPT !.fetched = coll]
  ELSE [sr EXCEPT !.resolved = coll]

\* the element of a singleton. The operators below bind an intermediate
\* state through a singleton set, so that it is computed once wherever the
\* operator is evaluated.
Value(S) == CHOOSE v \in S : TRUE

\* One pass of the loop of appendNewDeps over requirement el.
\* c = [this, other : sub rounds of the Round, succ : toFetch of the
\*      successor sub round, disc : names that got past both skips]
\* Lines 217-218 take BOTH collections from otherSubRound, so the entry is
\* written to and deleted from the same collection of the other sub round.
\* The `continue` of line 223 belongs to the loop over otherSubRounds, so
\* the pass goes on to the check of this sub round and to line 230.
AppendOne(c0, el, p, moveToThis) ==
  Value({
    IF el.name \in c.this.ignored THEN c
    ELSE IF ~IsReInstallationNeeded(el, p) THEN c
    ELSE LET n == el.name
             otherRoundStage == IsAlreadyBeingProcessed(c.other, n)
             otherRoundCollection == StageToCollection(c.other, otherRoundStage)
             thisRoundCollection == StageToCollection(c.other, otherRoundStage)
             other1 == IF otherRoundStage # notResolved /\ moveToThis
                       THEN SetStageCollection(c.other, otherRoundStage,
                              (thisRoundCollection \cup {n}) \ {n})
                       ELSE c.other
             currentRoundStage == IsAlreadyBeingProcessed(c.this, n)
         IN [c EXCEPT !.other = other1,
                      !.disc = @ \cup {n},
                      !.succ = IF currentRoundStage # notResolved THEN @
                               ELSE @ \cup {n}]
    : c \in {c0}})

RECURSIVE AppendNewDeps(_, _, _, _)
AppendNewDeps(c, srcList, p, moveToThis) ==
  IF srcList = <<>> THEN c
  ELSE AppendNewDeps(AppendOne(c, Head(srcList), p, moveToThis),
                     Tail(srcList), p, moveToThis)

\* ---------------------------------------------------------- ResolutionRound
\* a list of the requirements in a set (the order within a list of
\* metadata does not change what appendNewDeps computes)
RECURSIVE SetToSeq(_)
SetToSeq(S) ==
  IF S = {} THEN <<>>
  ELSE LET x == CHOOSE y \in S : TRUE IN <<x>> \o SetToSeq(S \ {x})

UnpinAll(deps) == [i \in DOMAIN deps |-> UnpinRequirement(deps[i])]

\* Body of the loop of line 282 for one (subRoundForDepsExtr, successorSubRound,
\* thisSubRoundPrefs): the deps of kind k of the package `name` of sub round l.
\* r = [this, other, next, disc, leak, err]
ResolveKind(r0, l, name, k, p) ==
  Value({
    Value({
      [r EXCEPT !.this = [c.this EXCEPT !.resolved = @ \cup {name}],
                !.other = c.other,
                !.next[k].toFetch = c.succ,
                !.disc[k] = c.disc,
                !.leak = k]
      : c \in {AppendNewDeps([this |-> r.this, other |-> r.other,
                              succ |-> r.next[k].toFetch, disc |-> r.disc[k]],
                             UnpinAll(SetToSeq(DepsGetter(k, p, name))),
                             Clone(p, PrefsPatch(k)),
                             MoveToThis(l))}})
    : r \in {r0}})

\* Body of the loop of line 277 for one fetched name. Line 290 uses the
\* loop variable successorSubRound left over from the loop of line 282:
\* the successor of the LAST sub round of subRounds, whatever l is; it is
\* unbound when no package has been through line 282 yet.
ResolveName(r0, l, name, p) ==
  Value({
    Value({
      IF r1.leak = "unbound" THEN [r1 EXCEPT !.err = TRUE]
      ELSE [r1 EXCEPT !.next[r1.leak].resolved = @ \cup r1.this.resolved]
      : r1 \in {IF name \notin r.this.ignored
                THEN ResolveKind(ResolveKind(r, l, name, SubRoundOrder[1], p),
                                 l, name, SubRoundOrder[2], p)
                ELSE r}})
    : r \in {r0}})

RECURSIVE ResolveFetched(_, _, _, _)
ResolveFetched(r0, l, todo, p) ==
  Value({
    IF todo = {} \/ r.err THEN r
    ELSE LET name == CHOOSE x \in todo : TRUE
         IN ResolveFetched(ResolveName(r, l, name, p), l, todo \ {name}, p)
    : r \in {r0}})

\* one pass of the loop of line 275 of _resolveDeps(prefs = p, successor =
\* nextRound), for sub round l
ResolveSubRound(l, p) ==
  ResolveFetched([this |-> rr[l], other |-> rr[OtherLane(l)], next |-> nextRound,
                  disc |-> disc, leak |-> successorSubRound, err |-> FALSE],
                 l, rr[l].fetched, p)

\* ------------------------------------------- getInstalledPackageDistribution
\* (src/ipi/tools/distlib.py). A name is a sequence of characters; a
\* distribution is a number from 1 to MaxDists, 0 is None.
MaxDists == 2

\* the names asked for, and the keys of the DistributionPath
DistNames == {<<"a">>, <<"a", "-", "b">>, <<"a", "_", "b">>}

\* canonicalizePackageNameMulti gives the dash form and the underscore form
DashName(name) == [i \in DOMAIN name |-> IF name[i] = "_" THEN "-" ELSE name[i]]
UnderscoreName(name) == [i \in DOMAIN name |-> IF name[i] = "-" THEN "_" ELSE name[i]]

\* dp.get_distribution: the distribution registered under that very key
GetDistribution(key) == IF key \in DOMAIN dp THEN dp[key] ELSE 0

GetInstalledPackageDistributionGuess(name) ==
  LET dashName == DashName(name)
      underscoreName == UnderscoreName(name)
  IN IF dashName # underscoreName
     THEN LET dDist == GetDistribution(dashName)
              uDist == GetDistribution(underscoreName)
          IN [raised |-> FALSE, dist |-> IF dDist # 0 THEN dDist ELSE uDist]
     ELSE [raised |-> FALSE, dist |-> GetDistribution(dashName)]

\* [raised: RuntimeError was raised, dist: the value returned otherwise]
GetInstalledPackageDistribution(name) ==
  LET dashName == DashName(name)
      underscoreName == UnderscoreName(name)
  IN IF dashName # underscoreName
     THEN LET dDist == GetDistribution(dashName)
              uDist == GetDistribution(underscoreName)
          IN IF dDist # 0 /\ uDist # 0
             THEN [raised |-> TRUE, dist |-> 0]
             ELSE [raised |-> FALSE, dist |-> IF dDist # 0 THEN dDist ELSE uDist]
     ELSE [raised |-> FALSE, dist |-> GetDistribution(dashName)]

\* no call of getInstalledPackageDistribution has been made
NoDistCall ==
  /\ distName = <<>>
  /\ distResult = [raised |-> FALSE, dist |-> 0]

\* ------------------------------------------------------------------ Init
\* The state after PackagesInstaller.__init__, with the arguments of the
\* coming call and the environment drawn from the configurations of weight
\* at most MaxWeight. A configuration holds only what a run can read: the
\* metadata of the packages it can come across (Reach), and the installed
\* version and the registry entry of those names; the other names are not
\* installed and are git packages. Names are numbered as they come up, the
\* requested ones first: any other configuration is one of these renamed,
\* and what the engine schedules depends on which names its collections
\* hold, never on the order it walks them in.
NonGit(reg) == Cardinality({n \in Names : reg[n] # "git"})
NumInstalled(inst) == Cardinality({n \in Names : inst[n] # 0})

\* the arguments and the environment: the configurations of weight <= w
Configuration(w) ==
  /\ names \in {Prefix(r) : r \in 0..(IF w < NumNames THEN w ELSE NumNames)}
  /\ graph \in Graphs(Cardinality(names), w - Cardinality(names))
  /\ prefs \in {p \in AllPrefs :
        PrefsWeight(p) <= w - Cardinality(names) - GraphWeight(graph)}
  /\ unpinAvailable \in {b \in BOOLEAN :
        B2N(~b) <= w - Cardinality(names) - GraphWeight(graph)
                     - PrefsWeight(prefs)}
  /\ \E S \in {s \in SUBSET Reach(names, graph) :
                  Cardinality(s) <= w - Cardinality(names) - GraphWeight(graph)
                                     - PrefsWeight(prefs) - B2N(~unpinAvailable)} :
        \E f \in [S -> 1..(LatestVersion - 1)] :
           installed = [n \in Names |-> IF n \in S THEN f[n] ELSE 0]
  /\ \E S \in {s \in SUBSET Reach(names, graph) :
                  Cardinality(s) <= w - Cardinality(names) - GraphWeight(graph)
                                     - PrefsWeight(prefs) - B2N(~unpinAvailable)
                                     - NumInstalled(installed)} :
        \E f \in [S -> Kinds \ {"git"}] :
           registry = [n \in Names |-> IF n \in S THEN f[n] ELSE "git"]

Constructed ==
  /\ rr = EmptyRound
  /\ nextRound = EmptyRound
  /\ installDirs = {}
  /\ sourcesDir = "none"
  /\ pc = "idle"
  /\ lane = 1
  /\ pending = {}
  /\ lanesDone = {}
  /\ successorSubRound = "unbound"
  /\ round = 0
  /\ fetchCount = [n \in Names |-> 0]
  /\ installLog = <<>>
  /\ disc = [build |-> {}, pkgs |-> {}]
  /\ bothKinds = {}
  /\ everResolved = {}
  /\ fetchedAfterFatal = {}
  /\ everIgnored = [l \in Lanes |-> {}]

Init ==
  /\ Configuration(MaxWeight)
  /\ Constructed
  /\ dp = [k \in DistNames |-> 0]
  /\ NoDistCall

\* the states in which getInstalledPackageDistribution is called: any
\* content of the DistributionPath, and an installer that is not used
DistInit ==
  /\ Configuration(0)
  /\ Constructed
  /\ dp \in [DistNames -> 0..MaxDists]
  /\ NoDistCall

\* --------------------------------------------------------------- actions
\* PackagesInstaller.__call__ up to the loop of
\* downloadPackagesAndTheirDependencies
Call ==
  /\ pc = "idle"
  /\ installDirs' = {}
  /\ sourcesDir' = "open"
  /\ rr' = [EmptyRound EXCEPT !.pkgs.toFetch = names]
  /\ pc' = "loop"
  /\ UNCHANGED <<inputs, distVars, installed, nextRound, lane, pending, lanesDone,
                 successorSubRound, round, hist>>

\* `while rr:` found truthy, and ResolutionRound.__call__ up to its first fetch
RoundCall ==
  /\ pc = "loop"
  /\ RoundBool(rr)
  /\ round < MaxRounds
  /\ nextRound' = EmptyRound
  /\ round' = round + 1
  /\ lane' = 1
  /\ disc' = [build |-> {}, pkgs |-> {}]
  /\ pc' = "fetch"
  /\ UNCHANGED <<inputs, distVars, installed, rr, installDirs, sourcesDir, pending,
                 lanesDone, successorSubRound, fetchCount, installLog,
                 bothKinds, everResolved, fetchedAfterFatal, everIgnored>>

\* ResolutionSubRound.fetch of the sub round FetchOrder[lane].
\* clonePackagesRepos walks toFetch to its end before fetch looks at what
\* was ignored; the order of toFetch is that of the caller's list or of the
\* metadata, so any of the fetched names may come after the spec that makes
\* fetch raise.
Fetch ==
  /\ pc = "fetch"
  /\ \E l \in {FetchOrder[lane]} : \E cl \in {ClonePackagesRepos(rr[l].toFetch)} :
        /\ fetchCount' = [n \in Names |->
                            IF n \in cl.res THEN fetchCount[n] + 1 ELSE fetchCount[n]]
        /\ IF \E n \in cl.ignored : registry[n] # "system"
           THEN /\ pc' = "raised"
                /\ \E after \in SUBSET cl.res : fetchedAfterFatal' = after
                /\ UNCHANGED <<rr, lane, successorSubRound, everIgnored>>
           ELSE /\ UNCHANGED fetchedAfterFatal
                /\ everIgnored' = [everIgnored EXCEPT ![l] = @ \cup cl.ignored]
                /\ rr' = [rr EXCEPT ![l].fetched = @ \cup cl.res,
                                    ![l].toFetch = {},
                                    ![l].ignored = @ \cup cl.ignored]
                /\ IF lane < Len(FetchOrder)
                   THEN /\ lane' = lane + 1
                        /\ UNCHANGED <<pc, successorSubRound>>
                   ELSE /\ lane' = 1
                        /\ successorSubRound' = "unbound"
                        /\ pc' = "resolve"
  /\ UNCHANGED <<inputs, distVars, installed, nextRound, installDirs, sourcesDir, pending,
                 lanesDone, round, installLog, disc, bothKinds, everResolved>>

\* one pass of the outer loop of ResolutionRound._resolveDeps
ResolveDeps ==
  /\ pc = "resolve"
  /\ \E l \in {SubRoundOrder[lane]} : \E r \in {ResolveSubRound(l, RoundPrefs)} :
        /\ rr' = [rr EXCEPT ![l] = r.this, ![OtherLane(l)] = r.other]
        /\ nextRound' = r.next
        /\ disc' = r.disc
        /\ successorSubRound' = r.leak
        /\ everResolved' = everResolved \cup (r.this.resolved \ rr[l].resolved)
        /\ IF r.err
           THEN /\ pc' = "raised"
                /\ UNCHANGED <<lane, bothKinds>>
           ELSE IF lane < Len(SubRoundOrder)
           THEN /\ lane' = lane + 1
                /\ UNCHANGED <<pc, bothKinds>>
           ELSE /\ lane' = 1
                /\ bothKinds' = bothKinds \cup (r.disc.build \cap r.disc.pkgs)
                /\ pc' = "merge"
  /\ UNCHANGED <<inputs, distVars, installed, installDirs, sourcesDir, pending, lanesDone,
                 round, fetchCount, installLog, fetchedAfterFatal, everIgnored>>

\* a Round call that returns without merging fetched into installDirs
ReturnRoundNoMerge ==
  /\ pc = "merge"
  /\ rr' = nextRound
  /\ pc' = "loop"
  /\ UNCHANGED <<inputs, distVars, installed, nextRound, installDirs, sourcesDir, lane,
                 pending, lanesDone, successorSubRound, round, hist>>

\* the end of ResolutionRound.__call__ and `rr = rr(...)`
ReturnRound ==
  /\ pc = "merge"
  /\ installDirs' = installDirs \cup rr.build.fetched \cup rr.pkgs.fetched
  /\ rr' = nextRound
  /\ pc' = "loop"
  /\ UNCHANGED <<inputs, distVars, installed, nextRound, sourcesDir, lane, pending,
                 lanesDone, successorSubRound, round, hist>>

\* `while rr:` found falsy, and the entry of ResolutionRound.buildAndInstallWheel
StartInstall ==
  /\ pc = "loop"
  /\ ~RoundBool(rr)
  /\ pc' = "install"
  /\ lane' = 1
  /\ pending' = rr[InstallOrder[1]].resolved
  /\ lanesDone' = {}
  /\ UNCHANGED <<inputs, distVars, installed, rr, nextRound, installDirs, sourcesDir,
                 successorSubRound, round, hist>>

\* one pass of the loop of ResolutionSubRound.buildAndInstallWheel
InstallNext ==
  /\ pc = "install"
  /\ \E t \in pending :
       IF t \in installDirs
       THEN /\ installLog' = Append(installLog, <<InstallOrder[lane], t>>)
            /\ installed' = [installed EXCEPT ![t] = LatestVersion]
            /\ pending' = pending \ {t}
            /\ UNCHANGED pc
       ELSE /\ pc' = "raised"
            /\ UNCHANGED <<installLog, installed, pending>>
  /\ UNCHANGED <<inputs, distVars, rr, nextRound, installDirs, sourcesDir, lane, lanesDone,
                 successorSubRound, round, fetchCount, disc, bothKinds,
                 everResolved, fetchedAfterFatal, everIgnored>>

\* ResolutionSubRound.buildAndInstallWheel returns
SubRoundInstalled ==
  /\ pc = "install"
  /\ pending = {}
  /\ lanesDone' = lanesDone \cup {InstallOrder[lane]}
  /\ IF lane < Len(InstallOrder)
     THEN /\ lane' = lane + 1
          /\ pending' = rr[InstallOrder[lane + 1]].resolved
          /\ UNCHANGED pc
     ELSE /\ pc' = "cleanup"
          /\ UNCHANGED <<lane, pending>>
  /\ UNCHANGED <<inputs, distVars, installed, rr, nextRound, installDirs, sourcesDir,
                 successorSubRound, round, hist>>

\* self.sourcesDir.cleanup() at the end of PackagesInstaller.__call__
Cleanup ==
  /\ pc = "cleanup"
  /\ sourcesDir' = "cleaned"
  /\ pc' = "done"
  /\ UNCHANGED <<inputs, distVars, installed, rr, nextRound, installDirs, lane, pending,
                 lanesDone, successorSubRound, round, hist>>

\* one call of getInstalledPackageDistribution
GetInstalledPackageDistributionCall ==
  /\ distName = <<>>
  /\ \E name \in DistNames :
       /\ distName' = name
       /\ distResult' = GetInstalledPackageDistribution(name)
  /\ UNCHANGED <<inputs, dp, installed, rr, nextRound, installDirs, sourcesDir, pc,
                 lane, pending, lanesDone, successorSubRound, round, hist>>

Next ==
  \/ Call
  \/ RoundCall
  \/ Fetch
  \/ ResolveDeps
  \/ ReturnRound
  \/ StartInstall
  \/ InstallNext
  \/ SubRoundInstalled
  \/ Cleanup

Spec == Init /\ [][Next]_vars

\* the round loop and the install phase are straight-line code: every step
\* that can be taken is taken
FairSpec == Init /\ [][Next]_vars /\ WF_vars(Next)

\* The state after PackagesInstaller.__init__ with a plain configuration of
\* weight at most MaxDeepWeight: default prefs, unpin at hand, nothing
\* installed, requirements without marker and without specifier, every
\* package a git package or a system package. These runs go deeper into the
\* graph than those of Init can.
DeepInit ==
  /\ names \in {Prefix(r) : r \in 0..(IF MaxDeepWeight < NumNames
                                      THEN MaxDeepWeight ELSE NumNames)}
  /\ graph \in {g \in Graphs(Cardinality(names), MaxDeepWeight - Cardinality(names)) :
                  \A e \in g : EdgeWeight(e) = 1}
  /\ prefs = DefaultPrefs
  /\ unpinAvailable = TRUE
  /\ installed = [n \in Names |-> 0]
  /\ \E S \in {s \in SUBSET Reach(names, graph) :
                  Cardinality(s) <= MaxDeepWeight - Cardinality(names)
                                     - GraphWeight(graph)} :
        registry = [n \in Names |-> IF n \in S THEN "system" ELSE "git"]
  /\ Constructed
  /\ dp = [k \in DistNames |-> 0]
  /\ NoDistCall

DeepSpec == DeepInit /\ [][Next]_vars

\* getInstalledPackageDistribution on its own
DistNext == GetInstalledPackageDistributionCall

DistSpec == DistInit /\ [][DistNext]_vars

TypeOK ==
  /\ pc \in {"idle", "loop", "fetch", "resolve", "merge", "install", "cleanup",
             "done", "raised"}
  /\ rr.build.fetched \cap rr.build.ignored = {}
  /\ rr.pkgs.fetched \cap rr.pkgs.ignored = {}
  /\ successorSubRound \in {"unbound", "build", "pkgs"}

\* ------------------------------------------------------------ properties
\* the round loop has converged: `while rr:` has found the Round falsy
ConvergedLoop == pc = "loop" /\ ~RoundBool(rr)

\* the loop was left normally, rr is the final Round
Converged == ConvergedLoop \/ pc \in {"install", "cleanup", "done"}

InstalledNames == {installLog[i][2] : i \in DOMAIN installLog}

\* C1: across one whole run the fetcher is invoked at most once per package
\* name, counting both lanes and all rounds.
C1_FetchedAtMostOnce == \A n \in Names : fetchCount[n] <= 1

\* C2: when the round loop has converged, every name that was fetched is in
\* the resolved set of exactly one lane of the final Round.
C2_FetchedResolvedInOneLane ==
  Converged =>
    \A n \in Names : fetchCount[n] > 0 =>
      (n \in rr.build.resolved) # (n \in rr.pkgs.resolved)

\* C3: a name discovered within one round both as a build dependency and as
\* a regular dependency is, at convergence, resolved in the build-tool lane
\* and not in the package lane.
C3_BuildLaneWins ==
  Converged =>
    \A x \in bothKinds : fetchCount[x] > 0 =>
      x \in rr.build.resolved /\ x \notin rr.pkgs.resolved

\* names a package lists as dependencies or build dependencies
DepNames(n) == {e.req.name : e \in {x \in graph : x.from = n}}

RECURSIVE ReachFrom(_, _)
ReachFrom(S, k) ==
  IF k = 0 THEN S
  ELSE ReachFrom(S \cup UNION {DepNames(n) : n \in S}, k - 1)

\* no package depends on itself transitively
Acyclic == \A n \in Names : n \notin ReachFrom(DepNames(n), NumNames)

\* C4: for an acyclic dependency graph the loop `while rr: rr = rr(...)`
\* reaches a Round whose two lanes both have an empty toFetch, unless a
\* fetch aborts the run.
C4_LoopTerminates == (pc = "idle" /\ Acyclic) ~> (ConvergedLoop \/ pc = "raised")

C4_Witness == Acyclic /\ ConvergedLoop /\ round >= 3 /\ rr.pkgs.resolved # {}

\* C5: after convergence the final buildAndInstallWheel builds and installs
\* exactly once every package that was fetched and dependency-resolved in
\* any round of the run.
C5_InstallsEverythingResolved ==
  pc = "done" =>
    /\ InstalledNames = everResolved
    /\ \A i, j \in DOMAIN installLog : i # j => installLog[i][2] # installLog[j][2]

\* every toFetch of the current Round and of its successor
AllToFetch ==
  rr.build.toFetch \cup rr.pkgs.toFetch
    \cup nextRound.build.toFetch \cup nextRound.pkgs.toFetch

\* every fetched and resolved collection of a Round
Processed(r) ==
  r.build.fetched \cup r.build.resolved \cup r.pkgs.fetched \cup r.pkgs.resolved

\* the requirements of the dependency graph that name x
ReqsOn(x) == {e.req : e \in {y \in graph : y.req.name = x}}

\* x is installed and its version satisfies every specifier asked of it
InstalledSatisfying(x) ==
  /\ installed[x] # 0
  /\ \A q \in ReqsOn(x) : Satisfies(installed[x], q.spec)

\* C6 as stated: with upgrade=false and forceReinstall=false, a package
\* whose installed version satisfies the requested specifier is never
\* added to the toFetch of any lane in any round.
C6_Original ==
  (~prefs.upgrade /\ ~prefs.forceReinstall) =>
    \A x \in Names : InstalledSatisfying(x) => x \notin AllToFetch

\* C6 (amended): with upgrade=false and forceReinstall=false, a package that
\* is not one of the requested names and whose installed version satisfies
\* the specifier of every requirement naming it is never added to the
\* toFetch of any lane in any round.
C6_SkipOnSatisfied ==
  (~prefs.upgrade /\ ~prefs.forceReinstall) =>
    \A x \in Names \ names : InstalledSatisfying(x) => x \notin AllToFetch

\* a resolved package requires, without marker, an installed and satisfying
\* package that was not requested, and the run has come to its end
C6_Witness ==
  /\ pc = "done"
  /\ ~prefs.upgrade /\ ~prefs.forceReinstall
  /\ \E e \in graph :
       /\ e.from \in everResolved
       /\ ~e.req.marker
       /\ e.req.name \notin names
       /\ InstalledSatisfying(e.req.name)
       /\ (e.kind = "pkgs" => prefs.resolveDeps)

\* the regular (k = "pkgs") or build (k = "build") dependencies that a
\* pass of _resolveDeps over sub round l discovers and that C7 is about:
\* no marker, not ignored, in no fetched or resolved collection, installed
\* in a version that satisfies the specifier
ForcedCandidates(l, k) ==
  {d.name : d \in {q \in UNION {DepsGetter(k, RoundPrefs, n) :
                                  n \in rr[l].fetched \ rr[l].ignored} :
                     /\ ~q.marker
                     /\ q.name \notin rr[l].ignored
                     /\ q.name \notin Processed(rr)
                     /\ installed[q.name] # 0
                     /\ Satisfies(installed[q.name], q.spec)}}

\* C7 as stated: with forceReinstall=true such a dependency is added to a
\* toFetch of the successor Round, whichever kind it was discovered as.
C7_Original ==
  [][(pc = "resolve" /\ prefs.forceReinstall) =>
       \A k \in Lanes : \A x \in ForcedCandidates(SubRoundOrder[lane], k) :
          x \in nextRound'.build.toFetch \cup nextRound'.pkgs.toFetch]_vars

\* C7 (amended): with forceReinstall=true, a dependency discovered as a
\* regular dependency (no marker, not ignored, not already fetched or
\* resolved in either lane) whose installed version satisfies its specifier
\* is added to the package lane's toFetch of the successor Round.
C7_ForceSchedulesRegularDeps ==
  [][(pc = "resolve" /\ prefs.forceReinstall) =>
       \A x \in ForcedCandidates(SubRoundOrder[lane], "pkgs") :
          x \in nextRound'.pkgs.toFetch]_vars

\* _resolveDeps is over; it met such a regular dependency and scheduled it
C7_Witness ==
  /\ pc = "merge"
  /\ prefs.forceReinstall
  /\ \E l \in Lanes : \E n \in rr[l].fetched :
       \E q \in DepsGetter("pkgs", RoundPrefs, n) :
          /\ ~q.marker
          /\ installed[q.name] # 0
          /\ Satisfies(installed[q.name], q.spec)
          /\ q.name \notin Processed(rr)
          /\ q.name \in nextRound.pkgs.toFetch

\* C8: a name that is not requested and that is required only through
\* marker-bearing requirements never appears in the toFetch, fetched or
\* resolved of any lane in any round.
C8_MarkerDepsNeverScheduled ==
  \A x \in Names \ names :
    (ReqsOn(x) # {} /\ \A q \in ReqsOn(x) : q.marker) =>
      x \notin AllToFetch \cup Processed(rr) \cup Processed(nextRound)

\* a package with a marker-bearing requirement was resolved, run finished
C8_Witness ==
  /\ pc = "done"
  /\ \E e \in graph :
       /\ e.from \in everResolved
       /\ e.req.marker
       /\ e.req.name \notin names
       /\ \A q \in ReqsOn(e.req.name) : q.marker
       /\ (e.kind = "pkgs" => prefs.resolveDeps)

\* C9: in the final phase the build-tool lane's buildAndInstallWheel has
\* returned before the first build of a package-lane package starts, and
\* every build-and-install of the build-tool lane precedes every one of the
\* package lane.
C9_BuildLaneFirst ==
  /\ (pc = "install" /\ InstallOrder[lane] = "pkgs") => "build" \in lanesDone
  /\ (\E i \in DOMAIN installLog : installLog[i][1] = "pkgs") => "build" \in lanesDone
  /\ \A i, j \in DOMAIN installLog :
       (installLog[i][1] = "build" /\ installLog[j][1] = "pkgs") => i < j

\* the package lane has built and installed something
C9_Witness ==
  /\ \E i \in DOMAIN installLog : installLog[i][1] = "pkgs"
  /\ "build" \in lanesDone

Exited == pc \in {"done", "raised"}

\* C11: on every exit path of an install run, when the run completes and
\* when a step raises, the scratch source directory has been cleaned up by
\* the time the call returns or the error reaches the caller.
C11_ScratchReleased == Exited => sourcesDir = "cleaned"

\* fetch has raised: it met a spec without fetcher that is not system
FatalSpecMet ==
  /\ pc = "raised"
  /\ \E l \in Lanes : \E n \in rr[l].toFetch : registry[n] = "other"

\* C12: when a name in a lane's toFetch resolves to a fetch spec without
\* fetcher that is not system, the run aborts immediately: once the spec is
\* met no further package is fetched, no later round runs and nothing is
\* built or installed; such a name never passes for ignored.
C12_AbortsImmediately ==
  /\ fetchedAfterFatal = {}
  /\ FatalSpecMet => installLog = <<>>
  /\ \A l \in Lanes : \A n \in rr[l].ignored \cup nextRound[l].ignored :
       registry[n] = "system"

\* the stage collections of a sub round
Stages == {"toFetch", "fetched", "resolved"}

\* where a Round holds a name: the <<lane, stage>> whose collection has it
Holders(r, n) == {h \in Lanes \X Stages : n \in r[h[1]][h[2]]}

\* no name is in toFetch in one lane while it is in fetched in the other
NotPendingAndFetched ==
  \A l \in Lanes : rr[l].toFetch \cap rr[OtherLane(l)].fetched = {}

\* C13: at every point of a run each package name is in at most one of the
\* stage collections (toFetch, fetched, resolved) of at most one lane of the
\* Round; in particular no name is in toFetch in one lane while it is in
\* fetched in the other lane.
C13_OneStageOneLane ==
  /\ NotPendingAndFetched
  /\ \A n \in Names : Cardinality(Holders(rr, n)) <= 1

\* the forms of the name asked for under which a distribution is installed
InstalledForms ==
  {k \in {DashName(distName), UnderscoreName(distName)} :
     k \in DOMAIN dp /\ dp[k] # 0}

\* C14: getInstalledPackageDistribution(name) fails with an error when the
\* dash form and the underscore form of the name differ and a distribution
\* is installed under both; when at most one of the two forms is installed
\* it returns that distribution, or nothing when neither is.
C14_RefusesToGuess ==
  distName # <<>> =>
    IF Cardinality(InstalledForms) = 2
    THEN distResult.raised
    ELSE /\ ~distResult.raised
         /\ InstalledForms = {} => distResult.dist = 0
         /\ \A k \in InstalledForms : distResult.dist = dp[k]

\* the call was made for a name installed under both of its forms
C14_Witness ==
  /\ distName # <<>>
  /\ DashName(distName) # UnderscoreName(distName)
  /\ Cardinality(InstalledForms) = 2
  /\ distResult.raised

\* the names that a pass of _resolveDeps over sub round l takes past the
\* first two skips of appendNewDeps (ignored, no reinstallation needed)
Discovered(l) ==
  UNION {{q.name : q \in {d \in {UnpinRequirement(x) : x \in DepsGetter(h[2], RoundPrefs, h[1])} :
                            /\ d.name \notin rr[l].ignored
                            /\ IsReInstallationNeeded(d, Clone(RoundPrefs, PrefsPatch(h[2])))}} :
         h \in (rr[l].fetched \ rr[l].ignored) \X Lanes}

\* those of them that the other sub round of the Round holds as fetched or
\* as resolved
HeldByOther(l) ==
  {n \in Discovered(l) : IsAlreadyBeingProcessed(rr[OtherLane(l)], n) # notResolved}

\* C15: promotion. When appendNewDeps runs on a lane with moveToThis=true
\* for a name that the other lane of the same Round holds at stage fetched
\* or depsResolved, afterwards the name is in this lane's collection of that
\* stage and no longer in the other lane's.
C15_Promotion ==
  [][(pc = "resolve" /\ MoveToThis(SubRoundOrder[lane])) =>
       \A n \in HeldByOther(SubRoundOrder[lane]) :
          /\ n \in StageToCollection(rr'[SubRoundOrder[lane]],
                     IsAlreadyBeingProcessed(rr[OtherLane(SubRoundOrder[lane])], n))
          /\ n \notin StageToCollection(rr'[OtherLane(SubRoundOrder[lane])],
                     IsAlreadyBeingProcessed(rr[OtherLane(SubRoundOrder[lane])], n))]_vars

\* C16: when appendNewDeps runs on a lane with moveToThis=false for a name
\* that the other lane of the same Round holds at stage fetched or
\* depsResolved, the name is skipped: it is added to no toFetch of the
\* successor Round and the other lane's collections are left as they were.
C16_SkipWhenHeldByOther ==
  [][(pc = "resolve" /\ ~MoveToThis(SubRoundOrder[lane])) =>
       /\ \A n \in HeldByOther(SubRoundOrder[lane]) : \A k \in Lanes :
             n \in nextRound'[k].toFetch => n \in nextRound[k].toFetch
       /\ HeldByOther(SubRoundOrder[lane]) # {} =>
             rr'[OtherLane(SubRoundOrder[lane])] = rr[OtherLane(SubRoundOrder[lane])]]_vars

\* C17: resolved names are carried per lane. When a Round call ends, for
\* each lane L every name in this Round's L.resolved is in L.resolved of the
\* Round it returns, and that Round's L.resolved holds names of lane L only.
C17_ResolvedCarriedPerLane ==
  pc = "merge" =>
    \A l \in Lanes : /\ rr[l].resolved \subseteq nextRound[l].resolved
                     /\ nextRound[l].resolved \subseteq rr[l].resolved

\* the names the dependencies of the packages fetched in sub round l carry:
\* what appendNewDeps is handed during a pass of _resolveDeps over l
DepsOfFetched(l) ==
  UNION {{UnpinRequirement(x).name : x \in DepsGetter(h[2], RoundPrefs, h[1])} :
         h \in (rr[l].fetched \ rr[l].ignored) \X Lanes}

\* C18: a lane's ignored set persists across rounds. Once a name has been
\* put into a lane's ignored, a discovery of that name in that lane, in
\* that round or in any later one, is skipped: it adds the name to no
\* toFetch.
C18_IgnoredPersists ==
  [][pc = "resolve" =>
       \A n \in everIgnored[SubRoundOrder[lane]] \cap DepsOfFetched(SubRoundOrder[lane]) :
          \A k \in Lanes : n \in nextRound'[k].toFetch => n \in nextRound[k].toFetch]_vars

\* every requirement isReInstallationNeeded can be handed: those of the
\* metadata and those unpinRequirement has emptied the specifier of
AnyRequirement == [name : Names, marker : BOOLEAN, spec : 0..LatestVersion]

\* the decision table, read row by row
DecisionTable(el, p) ==
  CASE el.marker -> FALSE
    [] ~el.marker /\ installed[el.name] = 0 -> TRUE
    [] ~el.marker /\ installed[el.name] # 0 /\ p.upgrade -> TRUE
    [] ~el.marker /\ installed[el.name] # 0 /\ ~p.upgrade /\ p.forceReinstall -> TRUE
    [] OTHER -> ~Satisfies(installed[el.name], el.spec)

\* C19: isReInstallationNeeded(requirement, prefs) equals the decision
\* table for every combination of marker, installed or not, installed
\* version satisfying the specifier or not, upgrade and forceReinstall:
\* marker -> false; else not installed -> true; else upgrade -> true; else
\* forceReinstall -> true; else false iff the installed version satisfies
\* the specifier.
C19_DecisionTable ==
  \A el \in AnyRequirement : \A p \in AllPrefs :
     IsReInstallationNeeded(el, p) = DecisionTable(el, p)

\* _resolveDeps is over: with upgrade and forceReinstall off it met a
\* requirement without marker whose package is installed in a version that
\* does not satisfy the specifier, and scheduled it
C19_Witness ==
  /\ pc = "merge"
  /\ ~prefs.forceReinstall
  /\ \E l \in Lanes : \E n \in rr[l].fetched \ rr[l].ignored : \E k \in Lanes :
       \E q \in {UnpinRequirement(x) : x \in DepsGetter(k, RoundPrefs, n)} :
          /\ ~q.marker
          /\ installed[q.name] # 0
          /\ ~Satisfies(installed[q.name], q.spec)
          /\ IsReInstallationNeeded(q, Clone(RoundPrefs, PrefsPatch(k)))
          /\ q.name \in nextRound[k].toFetch

\* the caller's prefs with upgrade set to b
WithUpgrade(b) == [prefs EXCEPT !.upgrade = b]

\* C20: every Round call runs with upgrade forced to false, so the caller's
\* prefs.upgrade has no influence on a run. The resolution pass is the one
\* step that reads prefs: from the same collections, installed state and
\* registry it moves, schedules and resolves the same names in the same
\* lanes whether the caller gave upgrade=true or upgrade=false, so two runs
\* that differ only in prefs.upgrade go through the same states and fetch
\* and install the same names. No step modifies the caller's prefs.
C20_UpgradeHasNoInfluence ==
  [][/\ prefs' = prefs
     /\ pc = "resolve" =>
          ResolveSubRound(SubRoundOrder[lane], RoundPrefsOf(WithUpgrade(TRUE)))
            = ResolveSubRound(SubRoundOrder[lane], RoundPrefsOf(WithUpgrade(FALSE)))]_vars

\* the caller asked for upgrade; _resolveDeps is over: it met a requirement
\* without marker whose package is installed in a satisfying version, and
\* left it alone as it does for a caller who did not ask for upgrade
C20_Witness ==
  /\ pc = "merge"
  /\ prefs.upgrade
  /\ ~prefs.forceReinstall
  /\ \E l \in Lanes : \E n \in rr[l].fetched \ rr[l].ignored : \E k \in Lanes :
       \E q \in {UnpinRequirement(x) : x \in DepsGetter(k, RoundPrefs, n)} :
          /\ ~q.marker
          /\ installed[q.name] # 0
          /\ Satisfies(installed[q.name], q.spec)
          /\ q.name \notin Processed(rr)
          /\ q.name \notin nextRound.build.toFetch \cup nextRound.pkgs.toFetch

\* C21: installDirs only grows during a run; after every Round call has
\* returned, every name in either lane's resolved of the returned Round has
\* an entry in installDirs; hence the build-and-install phase never looks
\* up a name that is missing from installDirs.
C21_InstallDirsCoverResolved ==
  [][/\ installDirs \subseteq installDirs'
     /\ (pc' = "loop" /\ round' >= 1) =>
           \A l \in Lanes : rr'[l].resolved \subseteq installDirs'
     /\ pc' = "install" => pending' \subseteq installDirs'
     /\ pc = "install" => pc' # "raised"]_vars

\* a run of two rounds or more has come to its end, and its install phase
\* looked up the directory of a name that was not requested but resolved
\* in a later round
C21_Witness ==
  /\ pc = "done"
  /\ round >= 2
  /\ \E i \in DOMAIN installLog :
       /\ installLog[i][2] \notin names
       /\ installLog[i][2] \in installDirs

====
